---- MODULE Spec2Model ----
(***************************************************************************)
(* Model of stern's pod watcher (stern/watch.go): the goroutine started by *)
(* Watch reads raw pod events from the watcher's result channel, filters   *)
(* them and offers Targets on the unbuffered channels added and removed,   *)
(* keeping the registry podNameList.                                       *)
(***************************************************************************)
EXTENDS Integers, Sequences, FiniteSets, TLC

\* Number of raw events the watcher delivers in a session of Spec / FairSpec.
MaxEvents == 2
\* Number of raw events of a session of ExampleSpec (the spec's examples).
MaxExampleEvents == 3

----------------------------------------------------------------------------
\* Data: container states, pods, raw events, configurations

ALL == "all"
ContainerStates == {"Pending", "Running", "Terminated"}

NoName == ""

\* The pods of the cluster: namespace, name, declared containers.
PodP1 == [ns |-> "ns", name |-> "p1", containers |-> <<"c1">>, init |-> <<>>]
PodP1Other == [ns |-> "ns2", name |-> "p1", containers |-> <<"c1">>, init |-> <<>>]
PodP2 == [ns |-> "ns", name |-> "p2", containers |-> <<"c1", "c2">>, init |-> <<"i1">>]
Pods == {PodP1, PodP1Other, PodP2}

\* All lists of container statuses for the given list of container names.
RECURSIVE StatusLists(_)
StatusLists(names) ==
    IF names = <<>> THEN {<<>>}
    ELSE {<<[name |-> Head(names), state |-> s]>> \o rest :
              s \in ContainerStates, rest \in StatusLists(Tail(names))}

\* corev1.Pod as far as the watcher reads it.
PodObject(p, status, initStatus) ==
    [kind |-> "pod", ns |-> p.ns, name |-> p.name,
     status |-> status, initStatus |-> initStatus,
     spec |-> p.containers, initSpec |-> p.init]

\* A payload that is not a *corev1.Pod, and the nil payload of a closed channel.
OtherObject ==
    [kind |-> "other", ns |-> NoName, name |-> NoName, status |-> <<>>,
     initStatus |-> <<>>, spec |-> <<>>, initSpec |-> <<>>]
NilObject ==
    [kind |-> "nil", ns |-> NoName, name |-> NoName, status |-> <<>>,
     initStatus |-> <<>>, spec |-> <<>>, initSpec |-> <<>>]

RECURSIVE AllTerminated(_)
AllTerminated(names) ==
    IF names = <<>> THEN <<>>
    ELSE <<[name |-> Head(names), state |-> "Terminated"]>> \o AllTerminated(Tail(names))

\* Added/Modified events carry the statuses of the pod's own containers.
AddModEventsOf(p) ==
    {[type |-> ty, object |-> PodObject(p, st, ist)] :
        ty \in {"ADDED", "MODIFIED"},
        st \in StatusLists(p.containers),
        ist \in StatusLists(p.init)}

AddModEvents == UNION {AddModEventsOf(p) : p \in Pods}

DeletedEvents ==
    {[type |-> "DELETED",
      object |-> PodObject(p, AllTerminated(p.containers), AllTerminated(p.init))] :
        p \in Pods}

\* A bookmark carries a pod but is no Added/Modified/Deleted; an error event
\* carries a status object, not a pod.
BookmarkEvent ==
    [type |-> "BOOKMARK",
     object |-> PodObject(PodP1, AllTerminated(PodP1.containers), <<>>)]
ErrorEvent == [type |-> "ERROR", object |-> OtherObject]
\* What a receive from the closed result channel yields: the zero Event.
ClosedEvent == [type |-> NoName, object |-> NilObject]

OpenEvents == AddModEvents \cup DeletedEvents \cup {BookmarkEvent, ErrorEvent}
Events == OpenEvents \cup {ClosedEvent}

\* The events of the spec's examples: parent p1 in ns with its single child c1.
ExampleEvents == AddModEventsOf(PodP1)

\* A regular expression is modelled by the set of names it matches; the
\* exclude filter may be nil.
AllPodNames == {p.name : p \in Pods}
AllContainerNames == {"c1", "c2", "i1"}
NilFilter == [nil |-> TRUE, matches |-> {}]
Regexp(names) == [nil |-> FALSE, matches |-> names]

Cfg(pf, cf, ex, ic, cs) ==
    [podFilter |-> pf, containerFilter |-> cf, containerExcludeFilter |-> ex,
     initContainers |-> ic, containerState |-> cs]

CfgRunning == Cfg(Regexp(AllPodNames), Regexp(AllContainerNames), NilFilter, FALSE, {"Running"})
CfgWildcard == Cfg(Regexp(AllPodNames), Regexp(AllContainerNames), NilFilter, FALSE, {"Running", ALL})
CfgExclude == Cfg(Regexp(AllPodNames), Regexp(AllContainerNames), Regexp({"c2"}), TRUE, {"Running"})
CfgInclude == Cfg(Regexp(AllPodNames), Regexp({"c1", "i1"}), NilFilter, TRUE, {"Running", ALL})
CfgPodFilter == Cfg(Regexp({"p2"}), Regexp(AllContainerNames), Regexp({"c1"}), TRUE, {"Running", "Terminated"})
CfgOnlyAll == Cfg(Regexp(AllPodNames), Regexp(AllContainerNames), NilFilter, TRUE, {ALL})

Configs == {CfgRunning, CfgWildcard, CfgExclude, CfgInclude, CfgPodFilter, CfgOnlyAll}
ExampleConfigs == {CfgRunning, CfgWildcard}

----------------------------------------------------------------------------
VARIABLES
    cfg,            \* the arguments of Watch, fixed for the session
    ret,            \* what Watch returned: "none" (not called yet), "streams"
                    \* (added, removed, nil) or "error" (nil, nil, err)
    podNameList,    \* the registry
    pc,             \* the goroutine: "select", "status", "spec", "send", "done";
                    \* "start" before Watch is called, "failed" when it returned
                    \* an error and started no goroutine
    e,              \* the raw event being handled (the last one received)
    idx,            \* position in the range loop over statuses / containers
    sending,        \* the Target offered on added or removed, not yet received,
                    \* with the registry before (was) and after (reg) the step,
                    \* the number of its raw event (ev) and its place in the
                    \* range loop (pos)
    ctxDone,        \* ctx.Done() is closed
    stopCalls,      \* calls of watcher.Stop()
    addedClosed,    \* close(added) was called
    removedClosed,  \* close(removed) was called
    nRecv,          \* raw events received so far
    out,            \* Targets received by the consumers for the event e
    lastNote,       \* per parent name: channel of the last Target received
    received        \* trace of the raw events, projected on the example parent

vars == <<cfg, ret, podNameList, pc, e, idx, sending, ctxDone, stopCalls,
          addedClosed, removedClosed, nRecv, out, lastNote, received>>

NoEvent == [type |-> "none", object |-> NilObject]
NoTarget == [Namespace |-> NoName, Pod |-> NoName, Container |-> NoName]
NotSending == [ch |-> "none", t |-> NoTarget, was |-> <<>>, reg |-> <<>>, ev |-> 0, pos |-> 0]

Target(pod, c) == [Namespace |-> pod.ns, Pod |-> pod.name, Container |-> c]

----------------------------------------------------------------------------
\* Pure helpers of the handler

MatchString(re, name) == name \in re.matches

\* ContainerState.has
has(state) == state \in cfg.containerState

\* ContainerState.Match
Match(state) == state \in ContainerStates /\ has(state)

\* Mutant: the search starts at the second element.
contains_SkipFirst(podNameSlice, podNameItem) ==
    IF \E i \in 2..Len(podNameSlice) : podNameSlice[i] = podNameItem
    THEN (CHOOSE i \in 2..Len(podNameSlice) :
              /\ podNameSlice[i] = podNameItem
              /\ \A j \in 2..(i - 1) : podNameSlice[j] # podNameItem) - 1
    ELSE -1

\* contains: the 0-based index of the first occurrence, or -1.
contains(podNameSlice, podNameItem) ==
    IF \E i \in 1..Len(podNameSlice) : podNameSlice[i] = podNameItem
    THEN (CHOOSE i \in 1..Len(podNameSlice) :
              /\ podNameSlice[i] = podNameItem
              /\ \A j \in 1..(i - 1) : podNameSlice[j] # podNameItem) - 1
    ELSE -1

\* copy(l[index:], l[index+1:]); l[len(l)-1] = ""; l = l[:len(l)-1]
RemoveAt(l, index) ==
    LET copied == [i \in 1..Len(l) |->
                      IF i - 1 >= index /\ i < Len(l) THEN l[i + 1] ELSE l[i]]
        cleared == [copied EXCEPT ![Len(l)] = NoName]
    IN SubSeq(cleared, 1, Len(l) - 1)

\* Mutant: every occurrence of the name is removed.
Deregister_All(l, name) == SelectSeq(l, LAMBDA x : x # name)

\* index := contains(podNameList, pod.Name); if index != -1 { remove }
Deregister(l, name) ==
    LET index == contains(l, name)
    IN IF index # -1 THEN RemoveAt(l, index) ELSE l

\* Mutant: the exclude filter is not applied.
Filtered_NoExclude(name) == MatchString(cfg.containerFilter, name)

\* The two filter tests at the head of both range loops: TRUE when the
\* container is not skipped.
Filtered(name) ==
    /\ MatchString(cfg.containerFilter, name)
    /\ ~(~cfg.containerExcludeFilter.nil /\ MatchString(cfg.containerExcludeFilter, name))

\* Mutant: the init container statuses are put first.
Statuses_InitFirst(pod) ==
    (IF cfg.initContainers THEN pod.initStatus ELSE <<>>) \o pod.status

\* statuses of an Added/Modified event
Statuses(pod) ==
    pod.status \o (IF cfg.initContainers THEN pod.initStatus ELSE <<>>)

\* Mutant: the declared init containers are forgotten.
Containers_NoInit(pod) == pod.spec

\* containers of a Deleted event
Containers(pod) ==
    pod.spec \o (IF cfg.initContainers THEN pod.initSpec ELSE <<>>)

\* Where the goroutine stands once it is at position i of a range loop over
\* n elements: in the loop, or back at the select.
LoopPos(loop, i, n) == IF i > n THEN "select" ELSE loop

\* Mutant: the pod filter is not applied.
Dispatch_NoPodFilter(ev) ==
    IF ev.object.kind = "nil" THEN "done"
    ELSE IF ev.object.kind # "pod" THEN "select"
    ELSE IF ev.type \in {"ADDED", "MODIFIED"}
         THEN LoopPos("status", 1, Len(Statuses(ev.object)))
    ELSE IF ev.type = "DELETED"
         THEN LoopPos("spec", 1, Len(Containers(ev.object)))
    ELSE "select"

\* Where the goroutine goes with the raw event ev it received.
Dispatch(ev) ==
    IF ev.object.kind = "nil" THEN "done"
    ELSE IF ev.object.kind # "pod" THEN "select"
    ELSE IF ~MatchString(cfg.podFilter, ev.object.name) THEN "select"
    ELSE IF ev.type \in {"ADDED", "MODIFIED"}
         THEN LoopPos("status", 1, Len(Statuses(ev.object)))
    ELSE IF ev.type = "DELETED"
         THEN LoopPos("spec", 1, Len(Containers(ev.object)))
    ELSE "select"

\* Mutant: the has(ALL) test is lost, every non-matching state is handled as
\* under wildcard mode.
StatusBranch_AlwaysWildcard(state) ==
    IF Match(state) THEN "add" ELSE "addIfAbsent"

\* Mutant: the matching branch registers and emits only if the parent is
\* not registered yet, as the wildcard branch does.
StatusBranch_AddOnce(state) ==
    IF Match(state) \/ has(ALL) THEN "addIfAbsent" ELSE "remove"

\* Mutant: the wildcard test is missing, a state that does not match removes.
StatusBranch_NoWildcard(state) ==
    IF Match(state) THEN "add" ELSE "remove"

\* What the body of the status loop does with a container that passed the
\* filters: "add", "addIfAbsent" or "remove".
StatusBranch(state) ==
    IF Match(state) THEN "add"
    ELSE IF has(ALL) THEN "addIfAbsent"
    ELSE "remove"

\* Mutant: the channels are buffered, the send does not block.
AfterOffer_Buffered(loop, i, n) == LoopPos(loop, i + 1, n)

\* Where the goroutine stands once it has reached `added <- t` or
\* `removed <- t` in iteration i: added and removed are unbuffered, it is
\* blocked in the send.
AfterOffer(loop, i, n) == "send"

\* Mutant: the error of i.Watch is ignored and the goroutine is started.
AfterWatch_IgnoreError(ok) == "select"

\* Where Watch leaves the session: the goroutine at its select, or no
\* goroutine at all when i.Watch failed.
AfterWatch(ok) == IF ok THEN "select" ELSE "failed"

\* The range loop the goroutine is in while it handles e.
LoopOf(ev) == IF ev.type = "DELETED" THEN "spec" ELSE "status"
LoopLen(ev) ==
    IF ev.type = "DELETED" THEN Len(Containers(ev.object)) ELSE Len(Statuses(ev.object))

\* Projection of a raw event on the example parent.
Tag(ev) ==
    IF ev \in ExampleEvents
    THEN [type |-> ev.type, state |-> ev.object.status[1].state]
    ELSE [type |-> "other", state |-> NoName]

----------------------------------------------------------------------------
\* Initial states

InitWith(configs) ==
    /\ cfg \in configs
    /\ ret = "none"
    /\ podNameList = <<>>
    /\ pc = "start"
    /\ e = NoEvent
    /\ idx = 1
    /\ sending = NotSending
    /\ ctxDone = FALSE
    /\ stopCalls = 0
    /\ addedClosed = FALSE
    /\ removedClosed = FALSE
    /\ nRecv = 0
    /\ out = <<>>
    /\ lastNote = [n \in AllPodNames |-> "none"]
    /\ received = <<>>

Init == InitWith(Configs)

----------------------------------------------------------------------------
\* Actions

\* Watch is called: i.Watch succeeds or fails; on success the channels are
\* made, the goroutine is started and Watch returns added, removed, nil.
WatchCall(outcomes) ==
    /\ pc = "start"
    /\ \E ok \in outcomes :
        /\ pc' = AfterWatch(ok)
        /\ ret' = IF ok THEN "streams" ELSE "error"
    /\ UNCHANGED <<cfg, podNameList, e, idx, sending, ctxDone, stopCalls,
                   addedClosed, removedClosed, nRecv, out, lastNote, received>>

\* case e := <-watcher.ResultChan(): up to the entry of a range loop
Receive(evs, max) ==
    /\ pc = "select"
    /\ nRecv < max
    /\ \E ev \in evs :
        /\ e' = ev
        /\ pc' = Dispatch(ev)
        /\ received' = Append(received, Tag(ev))
    /\ nRecv' = nRecv + 1
    /\ idx' = 1
    /\ out' = <<>>
    /\ UNCHANGED <<cfg, ret, podNameList, sending, ctxDone, stopCalls, addedClosed,
                   removedClosed, lastNote>>

\* The result channel keeps yielding after the counted events: the same
\* receive, for the events that cannot lengthen the registry (a deletion, a
\* bookmark, an error, the end of the stream), so that a stream that never
\* falls silent stays within finitely many states.
MoreEvents == DeletedEvents \cup {BookmarkEvent, ErrorEvent, ClosedEvent}

ReceiveMore(max) ==
    /\ pc = "select"
    /\ nRecv = max
    /\ \E ev \in MoreEvents :
        /\ e' = ev
        /\ pc' = Dispatch(ev)
    /\ idx' = 1
    /\ out' = <<>>
    /\ UNCHANGED <<cfg, ret, podNameList, sending, ctxDone, stopCalls, addedClosed,
                   removedClosed, nRecv, lastNote, received>>

\* One iteration of `for _, c := range statuses`, up to its channel send.
StatusStep ==
    /\ pc = "status"
    /\ LET pod == e.object
           c == Statuses(pod)[idx]
           t == Target(pod, c.name)
           branch == StatusBranch(c.state)
           skip == /\ idx' = idx + 1
                   /\ pc' = LoopPos("status", idx + 1, Len(Statuses(pod)))
                   /\ UNCHANGED <<podNameList, sending>>
           offer(ch, reg) == /\ podNameList' = reg
                             /\ sending' = [ch |-> ch, t |-> t, was |-> podNameList,
                                            reg |-> reg, ev |-> nRecv, pos |-> idx]
                             /\ pc' = AfterOffer("status", idx, Len(Statuses(pod)))
                             /\ idx' = idx
       IN IF ~Filtered(c.name) THEN skip
          ELSE IF branch = "add" THEN offer("added", Append(podNameList, pod.name))
          ELSE IF branch = "addIfAbsent"
               THEN IF contains(podNameList, pod.name) = -1
                    THEN offer("added", Append(podNameList, pod.name))
                    ELSE skip
          ELSE offer("removed", Deregister(podNameList, pod.name))
    /\ UNCHANGED <<cfg, ret, e, ctxDone, stopCalls, addedClosed, removedClosed, nRecv,
                   out, lastNote, received>>

\* One iteration of `for _, c := range containers`, up to its channel send.
SpecStep ==
    /\ pc = "spec"
    /\ LET pod == e.object
           c == Containers(pod)[idx]
           reg == Deregister(podNameList, pod.name)
       IN IF ~Filtered(c)
          THEN /\ idx' = idx + 1
               /\ pc' = LoopPos("spec", idx + 1, Len(Containers(pod)))
               /\ UNCHANGED <<podNameList, sending>>
          ELSE /\ podNameList' = reg
               /\ sending' = [ch |-> "removed", t |-> Target(pod, c),
                              was |-> podNameList, reg |-> reg,
                              ev |-> nRecv, pos |-> idx]
               /\ pc' = AfterOffer("spec", idx, Len(Containers(pod)))
               /\ idx' = idx
    /\ UNCHANGED <<cfg, ret, e, ctxDone, stopCalls, addedClosed, removedClosed, nRecv,
                   out, lastNote, received>>

\* A consumer receives the offered Target: `added <- t` / `removed <- t`
\* completes and the range loop goes on.
Accept ==
    /\ pc = "send"
    /\ out' = Append(out, sending)
    /\ lastNote' = [lastNote EXCEPT ![sending.t.Pod] = sending.ch]
    /\ sending' = NotSending
    /\ idx' = idx + 1
    /\ pc' = LoopPos(LoopOf(e), idx + 1, LoopLen(e))
    /\ UNCHANGED <<cfg, ret, podNameList, e, ctxDone, stopCalls, addedClosed,
                   removedClosed, nRecv, received>>

\* Mutant: the `return` of the ctx.Done() case is missing, the loop goes on
\* (a second pass through the case would panic on close of a closed channel).
CtxDoneBranch_NoReturn ==
    /\ pc = "select"
    /\ ctxDone
    /\ ~addedClosed
    /\ stopCalls' = stopCalls + 1
    /\ addedClosed' = TRUE
    /\ removedClosed' = TRUE
    /\ pc' = "select"
    /\ UNCHANGED <<cfg, ret, podNameList, e, idx, sending, ctxDone, nRecv, out,
                   lastNote, received>>

\* case <-ctx.Done()
CtxDoneBranch ==
    /\ pc = "select"
    /\ ctxDone
    /\ stopCalls' = stopCalls + 1
    /\ addedClosed' = TRUE
    /\ removedClosed' = TRUE
    /\ pc' = "done"
    /\ UNCHANGED <<cfg, ret, podNameList, e, idx, sending, ctxDone, nRecv, out,
                   lastNote, received>>

\* The caller cancels the context.
Cancel ==
    /\ ~ctxDone
    /\ ctxDone' = TRUE
    /\ UNCHANGED <<cfg, ret, podNameList, pc, e, idx, sending, stopCalls, addedClosed,
                   removedClosed, nRecv, out, lastNote, received>>

Next ==
    \/ WatchCall(BOOLEAN)
    \/ Receive(Events, MaxEvents)
    \/ StatusStep
    \/ SpecStep
    \/ Accept
    \/ CtxDoneBranch
    \/ Cancel

Spec == Init /\ [][Next]_vars

\* A session that Watch started and whose raw stream stays open. The goroutine runs whenever it can,
\* and a select with ctx.Done() ready cannot be lost for ever; nothing makes
\* a consumer receive.
FairNext ==
    \/ WatchCall({TRUE})
    \/ Receive(OpenEvents, MaxEvents)
    \/ StatusStep
    \/ SpecStep
    \/ Accept
    \/ CtxDoneBranch
    \/ Cancel

FairSpec ==
    /\ Init
    /\ [][FairNext]_vars
    /\ WF_vars(WatchCall({TRUE}))
    /\ WF_vars(StatusStep)
    /\ WF_vars(SpecStep)
    /\ WF_vars(CtxDoneBranch)

\* A session whose consumers receive every Target offered to them and whose
\* result channel never falls silent. The goroutine runs whenever it can; the
\* select chooses among its ready cases at random, so a case that is ready
\* again and again is taken at some point (strong fairness).
LiveNext ==
    \/ WatchCall({TRUE})
    \/ Receive(Events, MaxEvents)
    \/ ReceiveMore(MaxEvents)
    \/ StatusStep
    \/ SpecStep
    \/ Accept
    \/ CtxDoneBranch
    \/ Cancel

LiveSpec ==
    /\ Init
    /\ [][LiveNext]_vars
    /\ WF_vars(WatchCall({TRUE}))
    /\ WF_vars(StatusStep)
    /\ WF_vars(SpecStep)
    /\ WF_vars(Accept)
    /\ SF_vars(CtxDoneBranch)

\* The sessions of the spec's examples: events of parent p1 only.
ExampleInit == InitWith(ExampleConfigs)

ExampleNext ==
    \/ WatchCall({TRUE})
    \/ Receive(ExampleEvents, MaxExampleEvents)
    \/ StatusStep
    \/ Accept
    \/ CtxDoneBranch
    \/ Cancel

ExampleSpec == ExampleInit /\ [][ExampleNext]_vars

\* The life of one parent: the events of p1 in ns up to its deletion.
LifecycleEvents ==
    ExampleEvents \cup {ev \in DeletedEvents : ev.object.ns = "ns" /\ ev.object.name = "p1"}

LifecycleNext ==
    \/ WatchCall({TRUE})
    \/ Receive(LifecycleEvents, MaxExampleEvents)
    \/ StatusStep
    \/ SpecStep
    \/ Accept
    \/ CtxDoneBranch
    \/ Cancel

LifecycleSpec == ExampleInit /\ [][LifecycleNext]_vars

----------------------------------------------------------------------------
\* Vocabulary of the properties

Count(l, x) == Cardinality({i \in 1..Len(l) : l[i] = x})

\* The goroutine is between events: the event e, if any, is fully processed.
EventDone == pc \in {"select", "done"}

Closed == addedClosed /\ removedClosed

\* The channel and Target of each entry of a list of received Targets.
Notes(l) == [i \in 1..Len(l) |-> [ch |-> l[i].ch, t |-> l[i].t]]
Note(ch, ns, pod, c) ==
    [ch |-> ch, t |-> [Namespace |-> ns, Pod |-> pod, Container |-> c]]

----------------------------------------------------------------------------
\* C1: cancellation at any point of a session (waiting for the next raw
\* event, iterating a pod's containers, or blocked sending a Target that no
\* consumer receives) leads to both output streams closed and the watcher
\* stopped exactly once, and no Target is offered once the streams are closed.
\* Stated as claimed; the code does not meet it (FairSpec).
C1_CancelClosesStreams ==
    /\ ctxDone ~> (Closed /\ stopCalls = 1)
    /\ [](Closed => sending = NotSending)
    /\ [](stopCalls <= 1)

\* C2: when the raw event stream ends (an event whose Object is nil), the
\* goroutine has stopped the watch and closed both output streams by the
\* time its loop returns. Stated as claimed; the code does not meet it.
C2_StreamEndClosesStreams ==
    (pc = "done" /\ e.object.kind = "nil") => (Closed /\ stopCalls = 1)

----------------------------------------------------------------------------
\* The events of the spec's examples, as recorded in `received`.
AddedPending == [type |-> "ADDED", state |-> "Pending"]
ModifiedPending == [type |-> "MODIFIED", state |-> "Pending"]
ModifiedRunning == [type |-> "MODIFIED", state |-> "Running"]
ModifiedTerminated == [type |-> "MODIFIED", state |-> "Terminated"]
RunningExample == <<AddedPending, ModifiedRunning, ModifiedTerminated>>

\* C3 as claimed: with wildcard off and a classifier matching only Running,
\* Added(c1 Pending), Modified(c1 Running), Modified(c1 Terminated) for p1
\* yield nothing, then added{ns,p1,c1} with registry [p1], then
\* removed{ns,p1,c1} with registry [].
C3_Example_AsClaimed ==
    (cfg = CfgRunning /\ EventDone) =>
        /\ received = SubSeq(RunningExample, 1, 1) =>
               (Notes(out) = <<>> /\ podNameList = <<>>)
        /\ received = SubSeq(RunningExample, 1, 2) =>
               (Notes(out) = <<Note("added", "ns", "p1", "c1")>> /\ podNameList = <<"p1">>)
        /\ received = RunningExample =>
               (Notes(out) = <<Note("removed", "ns", "p1", "c1")>> /\ podNameList = <<>>)

\* C3 (amended): in that session the first event already yields
\* removed{ns,p1,c1} and leaves the registry [] (the child's state does not
\* match and wildcard is off); the second yields added{ns,p1,c1} with
\* registry [p1], the third removed{ns,p1,c1} with registry [].
C3_Example ==
    (cfg = CfgRunning /\ EventDone) =>
        /\ received = SubSeq(RunningExample, 1, 1) =>
               (Notes(out) = <<Note("removed", "ns", "p1", "c1")>> /\ podNameList = <<>>)
        /\ received = SubSeq(RunningExample, 1, 2) =>
               (Notes(out) = <<Note("added", "ns", "p1", "c1")>> /\ podNameList = <<"p1">>)
        /\ received = RunningExample =>
               (Notes(out) = <<Note("removed", "ns", "p1", "c1")>> /\ podNameList = <<>>)

\* The third event of the example has been processed.
C3_Witness ==
    /\ cfg = CfgRunning /\ EventDone /\ received = RunningExample
    /\ Len(out) = 1 /\ out[1].was = <<"p1">>

----------------------------------------------------------------------------
\* Vocabulary of the properties about Added/Modified events, written on the
\* arguments of Watch and on the event alone.

\* e is an Added/Modified event of a pod whose name matches the pod filter.
StatusEventDone ==
    /\ EventDone
    /\ e.type \in {"ADDED", "MODIFIED"}
    /\ e.object.kind = "pod"
    /\ e.object.name \in cfg.podFilter.matches

\* The candidate children of e, regular containers first.
Candidates ==
    e.object.status \o (IF cfg.initContainers THEN e.object.initStatus ELSE <<>>)

Passes(name) ==
    /\ name \in cfg.containerFilter.matches
    /\ cfg.containerExcludeFilter.nil \/ name \notin cfg.containerExcludeFilter.matches

Matching(state) == state \in cfg.containerState
Wildcard == ALL \in cfg.containerState

\* The entries of out that are the given note.
Emitted(ch, c) ==
    {j \in 1..Len(out) : Notes(out)[j] = Note(ch, e.object.ns, e.object.name, c)}

\* The example child {ns, p1, c1}: its state in the last event received, and
\* in the example event before that ("none" if there was none).
RECURSIVE LastState(_)
LastState(tags) ==
    IF tags = <<>> THEN "none"
    ELSE IF tags[Len(tags)].type # "other" THEN tags[Len(tags)].state
    ELSE LastState(SubSeq(tags, 1, Len(tags) - 1))

ExampleNow == LastState(received)
ExampleBefore == LastState(SubSeq(received, 1, Len(received) - 1))
ExampleChildDone ==
    /\ StatusEventDone
    /\ e \in ExampleEvents
    /\ Passes("c1")

\* C4 as claimed: each transition of the child's state from non-matching to
\* matching produces exactly one added Target, no more until the child next
\* leaves the matching state, and the parent is in the registry afterwards.
C4_AddedOncePerTransition_AsClaimed ==
    ExampleChildDone =>
        /\ (Matching(ExampleNow) /\ ~Matching(ExampleBefore)) =>
               (Cardinality(Emitted("added", "c1")) = 1 /\ Count(podNameList, "p1") > 0)
        /\ (Matching(ExampleNow) /\ Matching(ExampleBefore)) =>
               Cardinality(Emitted("added", "c1")) = 0

\* C4 (amended): every Added/Modified event that carries a filtered child in
\* a matching state produces exactly one added Target for that child, on the
\* transition into the matching state and again on every later event in
\* which the child still matches; the parent name is appended to the
\* registry as the Target is offered, and is still in the registry after the
\* event unless wildcard is off and a later filtered child of the same event
\* is in a non-matching state.
C4_AddedPerMatchingEvent ==
    StatusEventDone =>
        \A i \in 1..Len(Candidates) :
            (Passes(Candidates[i].name) /\ Matching(Candidates[i].state)) =>
                /\ Cardinality(Emitted("added", Candidates[i].name)) = 1
                /\ \A j \in Emitted("added", Candidates[i].name) :
                       out[j].reg = Append(out[j].was, e.object.name)
                /\ (Wildcard \/ \A k \in (i + 1)..Len(Candidates) :
                                    Passes(Candidates[k].name) => Matching(Candidates[k].state))
                       => Count(podNameList, e.object.name) > 0

\* The example child went from a non-matching to a matching state and its
\* added Target was received.
C4_Witness ==
    /\ ExampleChildDone
    /\ Len(received) = 2
    /\ ExampleBefore \in ContainerStates
    /\ ~Matching(ExampleBefore) /\ Matching(ExampleNow)
    /\ Notes(out) = <<Note("added", "ns", "p1", "c1")>>
    /\ Count(podNameList, "p1") > 0

\* C5 as claimed: with wildcard off, each transition of the child's state
\* from matching to non-matching produces exactly one removed Target and
\* removes exactly one occurrence of the parent name; further events that
\* leave the child non-matching produce no removed Target.
C5_RemovedOncePerTransition_AsClaimed ==
    (ExampleChildDone /\ ~Wildcard) =>
        /\ (Matching(ExampleBefore) /\ ~Matching(ExampleNow)) =>
               /\ Cardinality(Emitted("removed", "c1")) = 1
               /\ \A j \in Emitted("removed", "c1") :
                      Count(out[j].reg, "p1") = Count(out[j].was, "p1") - 1
        /\ (ExampleBefore \in ContainerStates /\ ~Matching(ExampleBefore)
              /\ ~Matching(ExampleNow)) =>
               Cardinality(Emitted("removed", "c1")) = 0

\* C5 (amended): with wildcard off, every Added/Modified event that carries
\* a filtered child in a non-matching state produces exactly one removed
\* Target for that child, on the transition out of the matching state and
\* again on every later (or earlier) event in which the child does not
\* match; each such emission removes one occurrence of the parent name from
\* the registry if there is one and none otherwise, and no other name.
C5_RemovedPerNonMatchingEvent ==
    (StatusEventDone /\ ~Wildcard) =>
        \A i \in 1..Len(Candidates) :
            (Passes(Candidates[i].name) /\ ~Matching(Candidates[i].state)) =>
                /\ Cardinality(Emitted("removed", Candidates[i].name)) = 1
                /\ \A j \in Emitted("removed", Candidates[i].name) :
                       \A n \in AllPodNames :
                           Count(out[j].reg, n) =
                               IF n = e.object.name /\ Count(out[j].was, n) > 0
                               THEN Count(out[j].was, n) - 1
                               ELSE Count(out[j].was, n)

\* The example child went from a matching to a non-matching state, its
\* removed Target was received and the registry lost p1.
C5_Witness ==
    /\ ExampleChildDone /\ ~Wildcard
    /\ Len(received) = 2
    /\ Matching(ExampleBefore) /\ ~Matching(ExampleNow)
    /\ Notes(out) = <<Note("removed", "ns", "p1", "c1")>>
    /\ out[1].was = <<"p1">> /\ out[1].reg = <<>>

----------------------------------------------------------------------------
\* The goroutine leaves the current iteration of a range loop.
IterationStep == pc \in {"status", "spec"} /\ (pc' # pc \/ idx' # idx)

\* The declared children of a Deleted event, regular containers first.
Declared ==
    e.object.spec \o (IF cfg.initContainers THEN e.object.initSpec ELSE <<>>)

\* The name of the child the current iteration is about.
CurrentName == IF pc = "status" THEN Candidates[idx].name ELSE Declared[idx]

\* C6: under wildcard mode, when an Added/Modified event carries a filtered
\* child whose state does not match: if the parent name is in the registry,
\* no added Target is emitted and the registry is unchanged; if it is not,
\* one added Target is offered and the parent name is appended. Added(c1
\* Pending), Modified(c1 Pending) for p1 emit added{ns,p1,c1} once and leave
\* the registry [p1].
C6_WildcardFirstSight ==
    /\ [][(pc = "status" /\ IterationStep /\ Wildcard
             /\ Passes(Candidates[idx].name) /\ ~Matching(Candidates[idx].state)) =>
            IF Count(podNameList, e.object.name) > 0
            THEN /\ podNameList' = podNameList
                 /\ sending' = NotSending /\ pc' # "send"
            ELSE /\ podNameList' = Append(podNameList, e.object.name)
                 /\ pc' = "send"
                 /\ sending'.ch = "added"
                 /\ sending'.t = [Namespace |-> e.object.ns, Pod |-> e.object.name,
                                  Container |-> Candidates[idx].name]]_vars
    /\ []((cfg = CfgWildcard /\ EventDone /\ received = <<AddedPending>>) =>
            (Notes(out) = <<Note("added", "ns", "p1", "c1")>> /\ podNameList = <<"p1">>))
    /\ []((cfg = CfgWildcard /\ EventDone /\ received = <<AddedPending, ModifiedPending>>) =>
            (Notes(out) = <<>> /\ podNameList = <<"p1">>))

\* The second event of the wildcard example has been processed.
C6_Witness ==
    /\ cfg = CfgWildcard /\ EventDone
    /\ received = <<AddedPending, ModifiedPending>>
    /\ out = <<>> /\ podNameList = <<"p1">> /\ lastNote["p1"] = "added"

\* C7: a Deleted event for a parent whose name matches the parent pattern
\* emits one removed Target for every declared child (init containers
\* included when the flag is set) that passes the include/exclude filters,
\* whatever the configuration and the history, and each of them removes one
\* occurrence of the parent name from the registry if there is one, none
\* otherwise.
C7_DeletedRemovesEveryChild ==
    (EventDone /\ e.type = "DELETED" /\ e.object.kind = "pod"
       /\ e.object.name \in cfg.podFilter.matches) =>
        LET kept == SelectSeq(Declared, Passes)
        IN /\ Notes(out) = [i \in 1..Len(kept) |->
                               Note("removed", e.object.ns, e.object.name, kept[i])]
           /\ \A j \in 1..Len(out) : \A n \in AllPodNames :
                  Count(out[j].reg, n) =
                      IF n = e.object.name /\ Count(out[j].was, n) > 0
                      THEN Count(out[j].was, n) - 1
                      ELSE Count(out[j].was, n)

\* A Deleted event of p2 with an init container: the first removed Target
\* took p2 out of the registry, the second found no occurrence.
C7_Witness ==
    /\ EventDone /\ e.type = "DELETED" /\ e.object.name = "p2"
    /\ Len(out) = 2
    /\ out[1].was = <<"p2">> /\ out[1].reg = <<>>
    /\ out[2].was = <<>> /\ out[2].t.Container = "i1"

\* C8: for Added, Modified and Deleted events alike, a child whose name
\* matches the exclude pattern (also when it matches the include pattern),
\* or does not match the include pattern, causes no Target to be emitted and
\* no registry change.
C8_ExcludedChildIsSkipped ==
    /\ [][(IterationStep /\ ~Passes(CurrentName)) =>
            (podNameList' = podNameList /\ sending' = NotSending /\ pc' # "send")]_vars
    /\ [](sending # NotSending => Passes(sending.t.Container))
    /\ [](\A j \in 1..Len(out) : Passes(out[j].t.Container))

\* An Added/Modified event of p2 whose child c2 is in a matching state and
\* matches both the include and the exclude pattern: only c1 and i1 were
\* notified.
C8_Witness ==
    /\ StatusEventDone /\ e.object.name = "p2"
    /\ ~cfg.containerExcludeFilter.nil
    /\ "c2" \in cfg.containerFilter.matches
    /\ "c2" \in cfg.containerExcludeFilter.matches
    /\ Matching(e.object.status[2].state)
    /\ Len(out) = 2
    /\ out[1].t.Container = "c1" /\ out[2].t.Container = "i1"

\* C9: each parent name appears at most once in the registry. Stated as
\* claimed; the code does not meet it.
C9_NoDuplicateNames ==
    \A n \in AllPodNames : Count(podNameList, n) <= 1

\* C10: whenever the goroutine is idle between events, a parent name is in
\* the registry if and only if the last Target emitted for that parent was
\* an added one. Stated as claimed; the code does not meet it.
C10_RegistryReflectsLastNote ==
    pc = "select" =>
        \A n \in AllPodNames : (Count(podNameList, n) > 0) <=> (lastNote[n] = "added")

----------------------------------------------------------------------------
\* The Targets of the event e so far: those received, then the pending one.
Offered == IF sending = NotSending THEN out ELSE Append(out, sending)

\* The names of the children of e in candidate-list order.
ChildNames ==
    IF e.type = "DELETED" THEN Declared
    ELSE [i \in 1..Len(Candidates) |-> Candidates[i].name]

\* C11: Targets are emitted in the order their raw events were received:
\* every Target received or pending belongs to the last raw event received
\* (those of earlier events were all received by a consumer before the next
\* event was taken, and none is pending at the select), and within one event
\* Targets follow the candidate list, regular containers before init
\* containers.
C11_EmissionOrder ==
    /\ pc = "select" => sending = NotSending
    /\ \A j \in 1..Len(Offered) :
        /\ Offered[j].ev = nRecv
        /\ Offered[j].pos \in 1..Len(ChildNames)
        /\ Offered[j].t.Container = ChildNames[Offered[j].pos]
        /\ \A k \in (j + 1)..Len(Offered) : Offered[j].pos < Offered[k].pos

\* The second raw event, of p2 with its init container, has been processed:
\* a regular container was notified first, the init container after it.
C11_Witness ==
    /\ EventDone /\ nRecv = 2 /\ e.object.name = "p2"
    /\ Len(out) = 2
    /\ out[1].t.Container \in {"c1", "c2"} /\ out[2].t.Container = "i1"
    /\ out[1].ev = 2 /\ lastNote["p1"] # "none"

\* C12: if the subscribe call fails, Watch returns an error and no streams,
\* starts no goroutine, and nothing is ever received, emitted, registered,
\* stopped or closed; if it succeeds Watch returns both streams and the
\* goroutine runs; the return of Watch is the only point an error comes
\* from.
C12_SetupError ==
    /\ [](ret = "error" =>
            /\ pc = "failed"
            /\ nRecv = 0 /\ e = NoEvent /\ sending = NotSending /\ out = <<>>
            /\ podNameList = <<>> /\ stopCalls = 0 /\ ~addedClosed /\ ~removedClosed)
    /\ [](ret = "streams" <=> pc \in {"select", "status", "spec", "send", "done"})
    /\ [][ret' # ret => (pc = "start" /\ ret = "none")]_vars

\* Watch failed and the context was cancelled afterwards.
C12_Witness == ret = "error" /\ pc = "failed" /\ ctxDone

----------------------------------------------------------------------------
\* C13 as claimed: when the goroutine is at its select with cancellation
\* signalled and a raw event ready, it takes the cancellation branch and
\* does not receive the raw event.
C13_CancelHasPriority_AsClaimed ==
    [][(pc = "select" /\ ctxDone) => nRecv' = nRecv]_vars

\* C13 (amended): with cancellation signalled and a raw event ready the
\* select may take either case. When it takes the cancellation case, the
\* pending raw event is not received, then or later, and no Target is
\* offered or registered for it; the goroutine has returned.
C13_CancelBranchDropsPendingEvent ==
    /\ [][stopCalls' # stopCalls =>
            (pc = "select" /\ ctxDone /\ pc' = "done"
               /\ nRecv' = nRecv /\ e' = e /\ sending' = NotSending)]_vars
    /\ [][stopCalls > 0 =>
            (nRecv' = nRecv /\ e' = e /\ sending' = sending /\ out' = out
               /\ podNameList' = podNameList /\ pc' = pc)]_vars

\* The cancellation case was taken before any raw event was received.
C13_Witness ==
    ctxDone /\ pc = "done" /\ stopCalls = 1 /\ nRecv = 0 /\ Closed

\* C14: while a Target offered by the goroutine has not been received by a
\* consumer, the goroutine is blocked in that send: it receives no raw
\* event, evaluates no further child, changes no registry entry and offers
\* no other Target; the only step of the goroutine is the consumer's
\* receive, which hands over exactly that Target.
C14_Backpressure ==
    /\ [](sending # NotSending <=> pc = "send")
    /\ [][sending # NotSending =>
            /\ nRecv' = nRecv /\ e' = e /\ podNameList' = podNameList
            /\ \/ sending' = sending /\ idx' = idx /\ out' = out /\ pc' = pc
               \/ sending' = NotSending /\ out' = Append(out, sending)]_vars

\* A second Target of the same event is pending after cancellation.
C14_Witness ==
    pc = "send" /\ Len(out) = 1 /\ sending.ch = "removed" /\ ctxDone

\* A raw event with a non-nil payload that the goroutine discards.
Discarded(ev) ==
    /\ ev.object.kind # "nil"
    /\ \/ ev.object.kind # "pod"
       \/ ev.object.name \notin cfg.podFilter.matches
       \/ ev.type \notin {"ADDED", "MODIFIED", "DELETED"}

\* C15: a raw event whose payload is not a pod, whose pod name does not
\* match the pod filter, or whose kind is none of Added, Modified, Deleted
\* is discarded: no Target is offered, the registry is unchanged and the
\* goroutine is back at its select.
C15_DiscardedEvents ==
    /\ [][(nRecv' # nRecv /\ Discarded(e')) =>
            (pc' = "select" /\ podNameList' = podNameList
               /\ sending' = NotSending /\ out' = <<>>
               /\ ~addedClosed' /\ ~removedClosed' /\ stopCalls' = 0)]_vars
    /\ []((Discarded(e) /\ nRecv > 0) => (Offered = <<>> /\ pc \in {"select", "done"}))

\* A bookmark was discarded as second raw event, the registry is not empty.
C15_Witness ==
    /\ pc = "select" /\ nRecv = 2 /\ e = BookmarkEvent
    /\ podNameList # <<>> /\ out = <<>>

\* C16: every Added or Modified event offers one added Target for each
\* filtered child whose state matches the classifier, whether or not the
\* parent is registered and whatever the child's earlier state, and appends
\* one more occurrence of the parent name to the registry each time.
C16_AddedAppendsEachTime ==
    [][(pc = "status" /\ IterationStep
          /\ Passes(Candidates[idx].name) /\ Matching(Candidates[idx].state)) =>
         /\ pc' = "send"
         /\ sending'.ch = "added"
         /\ sending'.t = [Namespace |-> e.object.ns, Pod |-> e.object.name,
                          Container |-> Candidates[idx].name]
         /\ podNameList' = Append(podNameList, e.object.name)
         /\ Count(podNameList', e.object.name) = Count(podNameList, e.object.name) + 1]_vars

\* The example child was Running in two events in a row: two added Targets,
\* two occurrences of p1.
C16_Witness ==
    /\ ExampleChildDone /\ Len(received) = 2
    /\ ExampleBefore = "Running" /\ ExampleNow = "Running" /\ Matching("Running")
    /\ Notes(out) = <<Note("added", "ns", "p1", "c1")>>
    /\ podNameList = <<"p1", "p1">>

\* C17: once cancellation is signalled, with consumers that receive every
\* Target offered and a select that is fair to its ready cases, the
\* goroutine ends up having taken the cancellation case: the watcher is
\* stopped once, both output streams are closed and the goroutine has
\* returned, whatever the result channel goes on delivering. Stated as
\* claimed; the code does not meet it (LiveSpec).
C17_CancelTerminatesWithConsumers ==
    (ctxDone /\ ret = "streams") ~> (pc = "done" /\ Closed /\ stopCalls = 1)

\* C18: once a Deleted event of a parent that passes the pod filter and has
\* at least one filtered declared child is fully processed, the registry
\* holds no occurrence of the parent's name, whatever Added/Modified events
\* came before. Stated as claimed; the code does not meet it
\* (LifecycleSpec).
C18_DeletedClearsParent ==
    (EventDone /\ e.type = "DELETED" /\ e.object.kind = "pod"
       /\ e.object.name \in cfg.podFilter.matches
       /\ \E i \in 1..Len(Declared) : Passes(Declared[i])) =>
        Count(podNameList, e.object.name) = 0

\* C19: the Targets of a parent do not depend on events of a parent with the
\* same name in another namespace. In particular under wildcard, after an
\* Added/Modified event of ns/p1, the first Added/Modified event of ns2/p1
\* with a filtered child c1 in a non-matching state emits added{ns2,p1,c1}.
\* Stated as claimed; the code does not meet it.
C19_NamespaceIndependence ==
    (/\ EventDone /\ Wildcard /\ nRecv = 2 /\ Len(received) = 2
     /\ received[1].type # "other"
     /\ e.type \in {"ADDED", "MODIFIED"} /\ e.object.kind = "pod"
     /\ e.object.ns = "ns2" /\ e.object.name = "p1"
     /\ e.object.name \in cfg.podFilter.matches
     /\ Passes("c1") /\ ~Matching(e.object.status[1].state)) =>
        Emitted("added", "c1") # {}

\* C20: under wildcard an Added or Modified event offers no removed Target
\* and takes no name out of the registry; every removed Target and every
\* registry removal comes from the loop of a Deleted event.
C20_WildcardRemovesOnlyOnDelete ==
    /\ [][(Wildcard /\ pc = "status") =>
            /\ sending'.ch # "removed"
            /\ \A n \in AllPodNames :
                   Count(podNameList', n) >= Count(podNameList, n)]_vars
    /\ [][(Wildcard /\ \E n \in AllPodNames :
                           Count(podNameList', n) < Count(podNameList, n)) =>
            (pc = "spec" /\ e.type = "DELETED" /\ sending'.ch = "removed")]_vars
    /\ []((Wildcard /\ \E j \in 1..Len(Offered) : Offered[j].ch = "removed") =>
            e.type = "DELETED")

\* Under wildcard, p1 was seen Pending (added, not removed) and then deleted:
\* the removed Target of the deletion takes p1 out of the registry.
C20_Witness ==
    /\ Wildcard /\ EventDone /\ nRecv = 2 /\ received[1] = AddedPending
    /\ e.type = "DELETED" /\ e.object.name = "p1" /\ e.object.ns = "ns"
    /\ Len(out) = 1 /\ out[1].ch = "removed"
    /\ out[1].was = <<"p1">> /\ out[1].reg = <<>>

====
